---- MODULE Spec2Model ----
(***************************************************************************)
(* Browser-automation publishing clients of NewsCreate:                    *)
(*   NotePoster  (src/utils/note_post.py)   post_article                   *)
(*   TwitterBot  (src/utils/twitter_bot.py) post_tweet                     *)
(* One Python process, one main thread.  A call is a sequential program    *)
(* whose position is pc; every Selenium command is a step whose outcome    *)
(* (found, TimeoutException, NoSuchElementException, another               *)
(* WebDriverException, the session having died) is chosen by the           *)
(* environment.  SIGTERM/SIGINT may be delivered between any two steps.    *)
(***************************************************************************)
EXTENDS Integers, Sequences, FiniteSets, TLC

\* ---------------------------------------------------------------- bounds
MaxCalls == 2          \* calls of post_article / post_tweet in one process
MaxRequests == 2       \* POST /post_note requests served by the process
MaxFeeds == 2          \* RSS feeds configured in NewsFetcher
MaxEntries == 2        \* entries of one feed
MaxLimit == 2          \* largest max_articles given to fetch_news

\* ------------------------------------------------------ program constants
MaxAttempts == 3       \* stop_after_attempt(3)
WaitMultiplier == 1    \* wait_exponential(multiplier=1, ...)
WaitMin == 4           \* wait_exponential(min=4)
WaitMax == 10          \* wait_exponential(max=10)
MaxContentLen == 100000 \* post_note: len(data['content']) > 100000 is rejected
DefaultWait == 180     \* self.wait = WebDriverWait(self.driver, 180)
ModalWait == 5         \* self.modal_wait = WebDriverWait(self.driver, 5)

Clients == {"note", "twitter"}
None == 0              \* self.driver = None; live drivers are 1, 2, ...

\* outcome of one Selenium command or wait: done, TimeoutException, another
\* exception with the session still answering, or the session has died (every
\* later command raises).  WebDriverWait.until swallows NoSuchElementException
\* while it polls, so the "except NoSuchElementException" clauses that guard
\* the waits are never entered and that outcome is not drawn.
Outcomes == {"ok", "Timeout", "Other", "Dead"}

VARIABLES
  constructed,   \* clients whose __init__ has run
  handlerOwner,  \* client whose closure is the process-wide signal handler
  driver,        \* self.driver of each client (None or a driver id)
  nextId,        \* number of webdriver.Chrome objects created so far
  quitLog,       \* every driver.quit() invocation: [d |-> id, by |-> caller]
  alive,         \* the browser session of the running call still answers
  cur,           \* client whose call is running ("none" before the first)
  pc,            \* position of the main thread
  attempts,      \* tenacity attempt_number of TwitterBot._login
  clock,         \* seconds slept by tenacity between attempts in this call
  mails,         \* subjects of the mails handed to the transport since the
                 \* current login attempt began, in order
  sentBefore,    \* number of mails sent in earlier login attempts of this call
  steps,         \* automation steps completed since the current login
                 \* attempt began, in order
  published,     \* final publish clicks (post button, tweet button) in this call
  result,        \* what the call gave its caller
  calls,         \* calls started so far
  callDriver,    \* driver created by the running call (None if none)
  loginFailures, \* attempts of TwitterBot._login that ended in its except clause
  credsValid,    \* the site accepts the configured credentials
  fatalFail,     \* a login attempt failed on the site's invalid-credentials answer
  failKind,      \* exception that ended the current login attempt or the call:
                 \* "none", "Timeout", "Other", "Dead"
  sendFailed,    \* worst outcome of a notification send in this call:
                 \* "no" (all delivered), "swallowed", "raised"
  logHasCode,    \* the log file holds a one-time confirmation code in clear
  sentSecret,    \* a string handed to the SMTP transport held a credential
  seen,          \* what the caller saw of its previous post_article call
  request,       \* the POST /post_note request being served
  response,      \* HTTP status of the last response of post_note (0: none yet)
  body,          \* what the JSON body of that response carries: "none",
                 \* "generic" (fixed texts), "url", "exception" (type, message,
                 \* traceback of the exception)
  ready,         \* landmarks that were on the page at the poll tick at which the
                 \* login-completion wait of the current attempt was decided
  waited,        \* seconds the current attempt spent waiting for the optional
                 \* user-id prompt before going on without it
  fetch          \* the running NewsFetcher.fetch_news call

vars == <<constructed, handlerOwner, driver, nextId, quitLog, alive, cur, pc,
          attempts, clock, mails, sentBefore, steps, published, result, calls,
          callDriver, loginFailures, credsValid, fatalFail, failKind,
          sendFailed, logHasCode, sentSecret, seen, request, response, body,
          ready, waited, fetch>>

\* no previous call, no request
NoCall == [steps |-> << >>, kind |-> "none", result |-> "pending", mails |-> << >>]
NoRequest == [n |-> 0, fields |-> FALSE, title |-> 0, content |-> 0, drivers |-> 0]
NoFetch == [pc |-> "idle", feeds |-> << >>, limited |-> FALSE, max |-> 0,
            fi |-> 0, ei |-> 0, articles |-> 0, got |-> << >>]

\* ---------------------------------------------------------------- helpers
Max(a, b) == IF a >= b THEN a ELSE b
Min(a, b) == IF a <= b THEN a ELSE b

RECURSIVE Pow2(_)
Pow2(n) == IF n <= 0 THEN 1 ELSE 2 * Pow2(n - 1)

Count(seq, x) == Cardinality({i \in 1..Len(seq) : seq[i] = x})
QuitCalls(d) == Cardinality({i \in 1..Len(quitLog) : quitLog[i].d = d})
QuitCallsBy(d, who) ==
  Cardinality({i \in 1..Len(quitLog) : quitLog[i].d = d /\ quitLog[i].by = who})

\* a Selenium command: on a dead session only the failure "Dead" is possible
Possible(o) == alive \/ o = "Dead"
Failed(o) == o # "ok"
\* reading driver.current_url / driver.title raises iff a driver is set and dead
UrlReadRaises == driver[cur] # None /\ ~alive

InCall == pc \notin {"idle", "done", "exited"}

\* the final publish action of each client: the second-stage post button of
\* post_article, the tweet button of post_tweet
FinalClicks == {"post_click", "tweet_click"}

\* ---------------------------------------------------------------- cleanup
\* cleanup, "if self.driver: try: self.driver.quit()": the invocation of quit
cleanup_quit(drv, log, c, by) ==
  IF drv[c] # None THEN Append(log, [d |-> drv[c], by |-> by]) ELSE log

\* variant: quit() called without try/except/finally
cleanup_finally_noTry(drv, c, quitRaised) ==
  [driver |-> IF quitRaised THEN drv ELSE [drv EXCEPT ![c] = None],
   raises |-> quitRaised]

\* variant: the exception is swallowed but self.driver is never cleared
cleanup_finally_keeps(drv, c, quitRaised) ==
  [driver |-> drv, raises |-> FALSE]

\* cleanup, "except Exception as e: logger.error(...)" and
\* "finally: self.driver = None": whether quit returned or raised, the
\* exception is swallowed and self.driver is cleared
cleanup_finally(drv, c, quitRaised) ==
  [driver |-> [drv EXCEPT ![c] = None], raises |-> FALSE]

\* the whole method, run without interruption
cleanup(drv, log, c, by, quitRaised) ==
  IF drv[c] # None
  THEN LET f == cleanup_finally(drv, c, quitRaised)
       IN  [driver |-> f.driver, raises |-> f.raises,
            quitLog |-> cleanup_quit(drv, log, c, by)]
  ELSE [driver |-> drv, raises |-> FALSE, quitLog |-> log]

\* ------------------------------------------------------------------- Init
Init ==
  /\ constructed = {}
  /\ handlerOwner = "none"
  /\ driver = [c \in Clients |-> None]
  /\ nextId = 0
  /\ quitLog = << >>
  /\ alive = FALSE
  /\ cur = "none"
  /\ pc = "idle"
  /\ attempts = 0
  /\ clock = 0
  /\ mails = << >>
  /\ sentBefore = 0
  /\ steps = << >>
  /\ published = 0
  /\ result = "pending"
  /\ calls = 0
  /\ callDriver = None
  /\ loginFailures = 0
  /\ credsValid = TRUE
  /\ fatalFail = FALSE
  /\ failKind = "none"
  /\ sendFailed = "no"
  /\ logHasCode = FALSE
  /\ sentSecret = FALSE
  /\ seen = NoCall
  /\ request = NoRequest
  /\ response = 0
  /\ body = "none"
  /\ ready = {}
  /\ waited = 0
  /\ fetch = NoFetch

\* frames
ServerUnchanged ==
  UNCHANGED <<constructed, handlerOwner, calls, credsValid, seen, request,
              response, body, fetch>>
ProcessUnchanged == ServerUnchanged /\ UNCHANGED <<logHasCode, ready, waited>>
NoMail == UNCHANGED <<mails, sendFailed, sentSecret>>
CallUnchanged ==
  UNCHANGED <<attempts, clock, fatalFail, sentBefore, published, loginFailures>>

\* __init__ of a client: installs its own closure as the signal handler
Construct(c) ==
  /\ pc \in {"idle", "done"}
  /\ calls < MaxCalls
  /\ driver[c] = None
  /\ constructed' = constructed \cup {c}
  /\ handlerOwner' = c
  /\ UNCHANGED <<driver, nextId, quitLog, alive, cur, pc, attempts, clock, mails,
                 sentBefore, steps, published, result, calls, callDriver,
                 loginFailures, credsValid, fatalFail, failKind, sendFailed,
                 logHasCode, sentSecret, seen, request, response, body, ready,
                 waited, fetch>>

\* the caller invokes post_article (c = "note") or post_tweet (c = "twitter")
BeginCall(c) ==
  /\ calls' = calls + 1
  /\ cur' = c
  /\ pc' = IF c = "note" THEN "n_setup" ELSE "t_setup"
  /\ attempts' = 0
  /\ clock' = 0
  /\ mails' = << >>
  /\ sentBefore' = 0
  /\ steps' = << >>
  /\ published' = 0
  /\ result' = "pending"
  /\ callDriver' = None
  /\ loginFailures' = 0
  /\ alive' = FALSE
  /\ fatalFail' = FALSE
  /\ credsValid' \in BOOLEAN
  /\ failKind' = "none"
  /\ sendFailed' = "no"
  /\ ready' = {}
  /\ waited' = 0
  /\ UNCHANGED <<driver, nextId, quitLog, logHasCode, sentSecret, body, fetch>>

Call(c) ==
  /\ pc \in {"idle", "done"}
  /\ c \in constructed
  /\ calls < MaxCalls
  /\ BeginCall(c)
  /\ UNCHANGED <<constructed, handlerOwner, seen, request, response>>

\* ========================================================== notifications
\* variant: an exception of the transport leaves the notification method
notification_outcome_propagates(transportOk) ==
  IF transportOk THEN "sent" ELSE "raised"

\* _send_error_notification (NotePoster) / _send_notification_email
\* (TwitterBot): building and sending the mail is inside "try ... except
\* Exception: logger.error(...)", so a failure of the transport is logged and
\* the method returns normally
notification_outcome(transportOk) ==
  IF transportOk THEN "sent" ELSE "swallowed"

\* mails sent without a log_file_path argument
NoLogMails == {"Driver Setup Failed", "Screenshots After Login Attempt"}
LogAttached(subject) == subject \notin NoLogMails

\* kinds of line in the log file
LogContent == {"info"} \cup (IF logHasCode THEN {"code"} ELSE {})

\* variant: the file is read once and that content is the payload
log_attachment_payload_once(content) == content

\* "part = MIMEApplication(f.read()); part.set_payload((f.read()))": the
\* first read returns the file's content and leaves the position at its end,
\* the second read returns nothing, and that is the payload that is attached
log_attachment_payload(content) ==
  LET firstRead == content
      secondRead == {}
  IN  secondRead

Worse(a, b) ==
  IF "raised" \in {a, b} THEN "raised"
  ELSE IF "swallowed" \in {a, b} THEN "swallowed" ELSE "no"

\* the mails new[Len(mails)+1 ..] are handed to the transport, which accepts
\* or fails
Notify(new) ==
  /\ mails' = new
  /\ IF Len(new) = Len(mails)
     THEN UNCHANGED <<sendFailed, sentSecret>>
     ELSE /\ \E transportOk \in BOOLEAN :
               sendFailed' = Worse(sendFailed, notification_outcome(transportOk))
          /\ sentSecret' =
               (sentSecret \/ \E i \in (Len(mails) + 1)..Len(new) :
                                 /\ LogAttached(new[i])
                                 /\ "code" \in log_attachment_payload(LogContent))

\* ============================================================ NotePoster
\* variant: webdriver.Chrome hands back the previous browser
new_driver_reused(n) == IF n = 0 THEN 1 ELSE n

\* webdriver.Chrome(options=options): a browser that did not exist before
new_driver(n) == n + 1

\* _setup_driver: webdriver.Chrome(...) either raises or yields a new driver
NP_setup_driver ==
  /\ pc = "n_setup"
  /\ \E ok \in BOOLEAN :
       IF ok
       THEN /\ nextId' = new_driver(nextId)
            /\ driver' = [driver EXCEPT ![cur] = new_driver(nextId)]
            /\ callDriver' = new_driver(nextId)
            /\ alive' = TRUE
            /\ pc' = "n_login_get"
            /\ failKind' = failKind
       ELSE /\ pc' = "n_outer_except"
            /\ failKind' = "Other"
            /\ UNCHANGED <<nextId, driver, callDriver, alive>>
  /\ UNCHANGED <<quitLog, cur, steps, result>>
  /\ NoMail /\ ProcessUnchanged /\ CallUnchanged

\* one step of NotePoster._login; any exception goes to its except clause
NP_login_step(at, name, next) ==
  /\ pc = at
  /\ \E o \in Outcomes :
       /\ Possible(o)
       /\ alive' = (alive /\ o # "Dead")
       /\ IF Failed(o)
          THEN pc' = "n_login_except" /\ steps' = steps /\ failKind' = o
          ELSE pc' = next /\ steps' = Append(steps, name) /\ failKind' = failKind
  /\ UNCHANGED <<driver, nextId, quitLog, cur, result, callDriver>>
  /\ NoMail /\ ProcessUnchanged /\ CallUnchanged

NP_login_get      == NP_login_step("n_login_get", "login_page", "n_login_cookies")
NP_login_cookies  == NP_login_step("n_login_cookies", "clear_cookies", "n_login_email")
NP_login_email    == NP_login_step("n_login_email", "type_email", "n_login_password")
NP_login_password == NP_login_step("n_login_password", "type_password", "n_login_click")
NP_login_click    == NP_login_step("n_login_click", "click_login", "n_login_wait")

\* the 90 s wait for a logged-in landmark; the site shows none for bad credentials
NP_login_wait ==
  /\ pc = "n_login_wait"
  /\ \E o \in Outcomes :
       /\ Possible(o)
       /\ (o = "ok") => credsValid
       /\ alive' = (alive /\ o # "Dead")
       /\ IF Failed(o)
          THEN pc' = "n_login_except" /\ steps' = steps /\ failKind' = o
          ELSE /\ pc' = "n_new_get"
               /\ steps' = Append(steps, "login_confirmed")
               /\ failKind' = failKind
  /\ UNCHANGED <<driver, nextId, quitLog, cur, result, callDriver>>
  /\ NoMail /\ ProcessUnchanged /\ CallUnchanged

\* except clause of _login: _send_error_notification("error") lacks two
\* required arguments, so the call raises TypeError before any mail is built
\* and before "return False"; post_article's inner except re-raises it
NP_login_except_next == "n_outer_except"

NP_login_except ==
  /\ pc = "n_login_except"
  /\ pc' = NP_login_except_next
  /\ loginFailures' = loginFailures + 1
  /\ UNCHANGED <<driver, nextId, quitLog, alive, cur, steps, result, callDriver,
                 failKind>>
  /\ UNCHANGED <<attempts, clock, fatalFail, sentBefore, published>>
  /\ NoMail /\ ProcessUnchanged

\* driver.get("https://note.com/notes/new"), outside the inner try
NP_new_get ==
  /\ pc = "n_new_get"
  /\ \E o \in Outcomes :
       /\ Possible(o)
       /\ alive' = (alive /\ o # "Dead")
       /\ IF Failed(o)
          THEN pc' = "n_outer_except" /\ steps' = steps /\ failKind' = o
          ELSE pc' = "n_title_wait" /\ steps' = Append(steps, "new_page")
               /\ failKind' = failKind
  /\ UNCHANGED <<driver, nextId, quitLog, cur, result, callDriver>>
  /\ NoMail /\ ProcessUnchanged /\ CallUnchanged

\* one step inside the inner try of post_article: each except clause saves a
\* screenshot and re-raises to the outer except
NP_publish_step(at, name, next) ==
  /\ pc = at
  /\ \E o \in Outcomes :
       /\ Possible(o)
       /\ alive' = (alive /\ o # "Dead")
       /\ IF Failed(o)
          THEN /\ pc' = "n_outer_except" /\ steps' = steps
               /\ published' = published /\ failKind' = o
          ELSE /\ pc' = next
               /\ steps' = Append(steps, name)
               /\ published' = IF name \in FinalClicks THEN published + 1
                                ELSE published
               /\ failKind' = failKind
  /\ UNCHANGED <<driver, nextId, quitLog, cur, result, callDriver>>
  /\ UNCHANGED <<attempts, clock, fatalFail, sentBefore, loginFailures>>
  /\ NoMail /\ ProcessUnchanged

NP_title_wait    == NP_publish_step("n_title_wait", "title_found", "n_body_wait")
NP_body_wait     == NP_publish_step("n_body_wait", "body_found", "n_fill_title")
NP_fill_title    == NP_publish_step("n_fill_title", "fill_title", "n_fill_body")
NP_fill_body     == NP_publish_step("n_fill_body", "fill_body", "n_publish_click")
\* variant: the second-stage post button is clicked straight after the body
NP_publish_click_skipped == NP_publish_step("n_publish_click", "post_click", "n_read_url")

NP_publish_click == NP_publish_step("n_publish_click", "publish_click", "n_post_click")
NP_post_click    == NP_publish_step("n_post_click", "post_click", "n_read_url")

\* time.sleep(5); current_url; title; success mail; return current_url
NP_read_url ==
  /\ pc = "n_read_url"
  /\ \E o \in {"ok", "Dead"} :
       /\ Possible(o)
       /\ alive' = (alive /\ o # "Dead")
       /\ IF Failed(o)
          THEN /\ pc' = "n_outer_except"
               /\ failKind' = o
               /\ UNCHANGED <<steps, result>>
               /\ NoMail
          ELSE /\ pc' = "finally"
               /\ steps' = Append(steps, "read_url")
               /\ Notify(Append(mails, "post_article_success"))
               /\ result' = "url"
               /\ failKind' = failKind
  /\ UNCHANGED <<driver, nextId, quitLog, cur, callDriver>>
  /\ ProcessUnchanged /\ CallUnchanged

\* outer except of post_article: _collect_error_info, then the
\* post_article_failed mail, then "return None".  _collect_error_info reads
\* driver.current_url in its try and again in its own except clause, so on a
\* dead session the second read raises out of post_article.
NP_outer_except_result(urlRaises, psutilRaises) ==
  IF urlRaises THEN [mails |-> mails, result |-> "raised", next |-> "finally"]
  ELSE IF psutilRaises
       THEN [mails |-> mails \o <<"error_collection_failed", "post_article_failed">>,
             result |-> "None", next |-> "finally"]
       ELSE [mails |-> mails \o <<"error", "post_article_failed">>,
             result |-> "None", next |-> "finally"]

NP_outer_except ==
  /\ pc = "n_outer_except"
  /\ \E psutilRaises \in BOOLEAN :
       LET r == NP_outer_except_result(UrlReadRaises, psutilRaises)
       IN  Notify(r.mails) /\ result' = r.result /\ pc' = r.next
  /\ UNCHANGED <<driver, nextId, quitLog, alive, cur, steps, callDriver, failKind>>
  /\ ProcessUnchanged /\ CallUnchanged

\* ============================================================ TwitterBot
\* variant: the min=4 floor is not applied
wait_exponential_noMin(n) == Min(WaitMultiplier * Pow2(n - 1), WaitMax)

\* wait_exponential(multiplier, min, max) after failed attempt n
wait_exponential(n) ==
  Max(Max(0, WaitMin), Min(WaitMultiplier * Pow2(n - 1), WaitMax))

\* subjects of the mails sent by the except clauses of each step
UserMail == [Timeout |-> "Username/Email Timeout",
             NoSuch  |-> "Username/Email Not Found",
             Other   |-> "Username/Email Wait Error"]
PasswordMail == [Timeout |-> "Password Input Timeout",
                 NoSuch  |-> "Password Input Not Found",
                 Other   |-> "Password Input Error"]
ComposeMail == [Timeout |-> "Tweet Post Button Timeout",
                NoSuch  |-> "Tweet Post Button Not Found",
                Other   |-> "Tweet Post Button Error"]
TextMail == [Timeout |-> "Tweet Area Timeout",
             NoSuch  |-> "Tweet Area Not Found",
             Other   |-> "Tweet Content Error"]
ButtonMail == [Timeout |-> "Final Tweet Button Timeout",
               NoSuch  |-> "Final Tweet Button Not Found",
               Other   |-> "Final Tweet Button Error"]

\* an except clause that reads driver.current_url and then mails: on a dead
\* session the read raises before the mail is sent
HandlerMails(o, subject) ==
  IF o = "Dead" THEN mails ELSE Append(mails, subject)

\* _setup_driver: Chrome() raises, or stealth() raises on the new driver, or
\* the driver is ready; both failures mail "Driver Setup Failed" and re-raise
TB_setup_driver ==
  /\ pc = "t_setup"
  /\ \E o \in {"ok", "chrome_fail", "stealth_fail"} :
       /\ IF o = "chrome_fail"
          THEN UNCHANGED <<nextId, driver, callDriver, alive>>
          ELSE /\ nextId' = new_driver(nextId)
               /\ driver' = [driver EXCEPT ![cur] = new_driver(nextId)]
               /\ callDriver' = new_driver(nextId)
               /\ alive' = TRUE
       /\ IF o = "ok"
          THEN pc' = "l_get" /\ attempts' = 1 /\ NoMail /\ failKind' = failKind
          ELSE /\ pc' = "t_outer_except"
               /\ attempts' = attempts
               /\ failKind' = "Other"
               /\ Notify(Append(mails, "Driver Setup Failed"))
  /\ UNCHANGED <<quitLog, cur, steps, result, clock, fatalFail, sentBefore,
                 published, loginFailures>>
  /\ ProcessUnchanged

\* a step of _login outside the inner try blocks: any exception reaches the
\* outermost except clause of _login
TB_login_plain(at, name, next) ==
  /\ pc = at
  /\ \E o \in Outcomes :
       /\ Possible(o)
       /\ alive' = (alive /\ o # "Dead")
       /\ IF Failed(o)
          THEN pc' = "l_outer_except" /\ steps' = steps /\ failKind' = o
          ELSE pc' = next /\ steps' = Append(steps, name) /\ failKind' = failKind
  /\ UNCHANGED <<driver, nextId, quitLog, cur, result, callDriver>>
  /\ NoMail /\ ProcessUnchanged /\ CallUnchanged

\* driver.get(login), set_page_load_timeout, _wait_for_page_load
TB_login_get     == TB_login_plain("l_get", "login_page", "l_cookies")
\* variant: the cookies of the session are kept
TB_login_cookies_kept == TB_login_plain("l_cookies", "keep_cookies", "l_user")

\* driver.delete_all_cookies()
TB_login_cookies == TB_login_plain("l_cookies", "clear_cookies", "l_user")

\* username/e-mail field: wait, type, RETURN; each except clause mails and raises
TB_login_user ==
  /\ pc = "l_user"
  /\ \E o \in Outcomes :
       /\ Possible(o)
       /\ alive' = (alive /\ o # "Dead")
       /\ IF Failed(o)
          THEN /\ pc' = "l_outer_except"
               /\ steps' = steps
               /\ failKind' = o
               /\ Notify(HandlerMails(o, UserMail[IF o = "Dead" THEN "Other" ELSE o]))
          ELSE /\ pc' = "l_userid"
               /\ steps' = Append(steps, "type_id")
               /\ failKind' = failKind
               /\ NoMail
  /\ UNCHANGED <<driver, nextId, quitLog, cur, result, callDriver>>
  /\ ProcessUnchanged /\ CallUnchanged

\* the WebDriverWait used for the optional user-id prompt:
\* "user_id_input = self.wait.until(...)"
userid_wait_timeout == DefaultWait

\* optional user-id prompt, waited for with self.wait: TimeoutException means
\* "not required"; anything else mails and raises
TB_login_userid ==
  /\ pc = "l_userid"
  /\ \E o \in Outcomes :
       /\ Possible(o)
       /\ alive' = (alive /\ o # "Dead")
       /\ IF o \in {"Other", "Dead"}
          THEN /\ pc' = "l_outer_except"
               /\ steps' = steps
               /\ failKind' = o
               /\ Notify(HandlerMails(o, "User ID Verification Error"))
          ELSE /\ pc' = "l_password"
               /\ steps' = IF o = "ok" THEN Append(steps, "type_user_id") ELSE steps
               /\ failKind' = failKind
               /\ NoMail
       /\ waited' = IF o = "Timeout" THEN userid_wait_timeout ELSE waited
  /\ UNCHANGED <<driver, nextId, quitLog, cur, result, callDriver, logHasCode,
                 ready>>
  /\ ServerUnchanged /\ CallUnchanged

\* password field: wait, type, RETURN, then the mail with the screenshots of
\* the attempt; each except clause mails and raises
TB_login_password ==
  /\ pc = "l_password"
  /\ \E o \in Outcomes :
       /\ Possible(o)
       /\ alive' = (alive /\ o # "Dead")
       /\ IF Failed(o)
          THEN /\ pc' = "l_outer_except"
               /\ steps' = steps
               /\ failKind' = o
               /\ Notify(HandlerMails(o, PasswordMail[IF o = "Dead" THEN "Other" ELSE o]))
          ELSE /\ pc' = "l_codewait"
               /\ steps' = steps \o <<"type_password", "submit_login">>
               /\ failKind' = failKind
               /\ Notify(Append(mails, "Screenshots After Login Attempt"))
  /\ UNCHANGED <<driver, nextId, quitLog, cur, result, callDriver>>
  /\ ProcessUnchanged /\ CallUnchanged

\* what the login-completion block can find on the page
Landmarks == {"code_prompt", "logged_in"}

\* variant: the logged-in landmarks are looked for first
completion_wait_next_home_first(r) ==
  IF "logged_in" \in r THEN "l_stdwait"
  ELSE IF "code_prompt" \in r THEN "l_getcode" ELSE "l_stdwait"

\* the completion block waits for the confirmation-code field first
\* (self.wait.until(...) at the top of the try) and for the logged-in
\* landmarks only in "except TimeoutException": with r on the page, the code
\* path is taken whenever the code prompt is there
completion_wait_next(r) ==
  IF "code_prompt" \in r THEN "l_getcode" ELSE "l_stdwait"

\* wait for the confirmation-code field: found, or TimeoutException (caught by
\* "except TimeoutException" of the completion block), or another exception
\* (caught by its "except Exception")
TB_login_codewait ==
  /\ pc = "l_codewait"
  /\ \E o \in Outcomes, r \in SUBSET Landmarks :
       /\ Possible(o)
       /\ (r # {}) => credsValid
       /\ (o = "ok") <=> ("code_prompt" \in r)
       /\ (o \in {"Other", "Dead"}) => r = {}
       /\ alive' = (alive /\ o # "Dead")
       /\ ready' = r
       /\ pc' = IF o \in {"Other", "Dead"} THEN "l_completion_except"
                ELSE completion_wait_next(r)
       /\ failKind' = IF o \in {"Other", "Dead"} THEN o ELSE failKind
  /\ UNCHANGED <<driver, nextId, quitLog, cur, steps, result, callDriver,
                 logHasCode, waited>>
  /\ NoMail /\ ServerUnchanged /\ CallUnchanged

\* variant: the code field is filled whatever the lookup returned
getcode_next_always_types(code) == "l_codeenter"

\* variant: without a code the completion block is left by its end, down to
\* "return login_successful"
getcode_next_falls_through(code) == IF code THEN "l_codeenter" ELSE "l_return"

\* "if confirmation_code: ... else: raise Exception("Confirmation code not
\* retrieved from email.")"
getcode_next(code) == IF code THEN "l_codeenter" ELSE "l_completion_except"

\* _get_twitter_confirmation_code, one lookup in the mailbox with no loop
\* around it: a code, or None (then "raise Exception");
\* a code that was found is written to the log in clear
\* (logger.info(f"Retrieved confirmation code: {confirmation_code}"))
TB_login_getcode ==
  /\ pc = "l_getcode"
  /\ \E code \in BOOLEAN :
       /\ pc' = getcode_next(code)
       /\ steps' = steps \o (IF code THEN <<"mailbox_lookup", "code_found">>
                              ELSE <<"mailbox_lookup">>)
       /\ failKind' = IF code THEN failKind ELSE "Other"
       /\ logHasCode' = (logHasCode \/ code)
  /\ UNCHANGED <<driver, nextId, quitLog, alive, cur, result, callDriver>>
  /\ UNCHANGED <<ready, waited>>
  /\ NoMail /\ ServerUnchanged /\ CallUnchanged

\* type the code, click Next, wait for a logged-in landmark.  The
\* TimeoutException raised by "except TimeoutException" (after its mail) is
\* raised inside the completion try, whose own "except TimeoutException"
\* catches it and goes on to wait for the standard landmarks.
TB_login_codeenter ==
  /\ pc = "l_codeenter"
  /\ \E o \in Outcomes :
       /\ Possible(o)
       /\ alive' = (alive /\ o # "Dead")
       /\ CASE o = "ok" ->
                 /\ pc' = "l_return"
                 /\ steps' = steps \o <<"type_code", "click_next", "login_confirmed">>
                 /\ failKind' = failKind
                 /\ NoMail
            [] o = "Timeout" ->
                 /\ pc' = "l_stdwait"
                 /\ steps' = steps
                 /\ failKind' = failKind
                 /\ Notify(Append(mails, "Confirmation Timeout"))
            [] OTHER ->
                 /\ pc' = "l_completion_except"
                 /\ steps' = steps
                 /\ failKind' = o
                 /\ Notify(HandlerMails(o, "Confirmation Error"))
  /\ UNCHANGED <<driver, nextId, quitLog, cur, result, callDriver>>
  /\ ProcessUnchanged /\ CallUnchanged

\* inside "except TimeoutException" of the completion block: wait for the
\* standard logged-in landmarks; an exception here leaves the block
TB_login_stdwait ==
  /\ pc = "l_stdwait"
  /\ \E o \in Outcomes :
       /\ Possible(o)
       /\ (o = "ok") => credsValid
       /\ alive' = (alive /\ o # "Dead")
       /\ fatalFail' = (fatalFail \/ (o = "Timeout" /\ ~credsValid))
       /\ CASE o = "ok" ->
                 /\ pc' = "l_return"
                 /\ steps' = Append(steps, "login_confirmed")
                 /\ failKind' = failKind
                 /\ NoMail
            [] o = "Timeout" ->
                 /\ pc' = "l_outer_except"
                 /\ steps' = steps
                 /\ failKind' = o
                 /\ Notify(Append(mails, "Login Completion Timeout (No Confirmation)"))
            [] OTHER ->
                 /\ pc' = "l_outer_except"
                 /\ steps' = steps
                 /\ failKind' = o
                 /\ NoMail
  /\ UNCHANGED <<driver, nextId, quitLog, cur, result, callDriver, attempts,
                 clock, sentBefore, published, loginFailures>>
  /\ ProcessUnchanged

\* "except Exception" of the completion block: mail, re-raise
TB_login_completion_except ==
  /\ pc = "l_completion_except"
  /\ Notify(IF UrlReadRaises THEN mails ELSE Append(mails, "Login Completion Error"))
  /\ pc' = "l_outer_except"
  /\ UNCHANGED <<driver, nextId, quitLog, alive, cur, steps, result, callDriver,
                 failKind>>
  /\ ProcessUnchanged /\ CallUnchanged

\* outermost except clause of _login: "Login Failed" mail, re-raise to tenacity
TB_login_outer_except ==
  /\ pc = "l_outer_except"
  /\ Notify(IF UrlReadRaises THEN mails ELSE Append(mails, "Login Failed"))
  /\ loginFailures' = loginFailures + 1
  /\ pc' = "l_retry"
  /\ UNCHANGED <<driver, nextId, quitLog, alive, cur, steps, result, callDriver,
                 failKind>>
  /\ UNCHANGED <<attempts, clock, fatalFail, sentBefore, published>>
  /\ ProcessUnchanged

\* @retry: what tenacity does with an attempt that raised an Exception
\* (retry_if_exception_type() by default): sleep and call _login again while
\* attempt_number < 3, else raise RetryError into post_tweet
retry_decision(n, fatal) == IF n < MaxAttempts THEN "again" ELSE "RetryError"

\* variant: the retried call starts with _setup_driver
retry_entry_with_setup == "t_setup"

\* what tenacity calls again is _login itself, whose first statement is
\* driver.get(login page); _setup_driver is called by post_tweet, before
retry_entry == "l_get"

TB_login_retry ==
  /\ pc = "l_retry"
  /\ IF retry_decision(attempts, fatalFail) = "again"
     THEN /\ clock' = clock + wait_exponential(attempts)
          /\ attempts' = attempts + 1
          /\ pc' = retry_entry
          /\ sentBefore' = sentBefore + Len(mails)
          /\ mails' = << >>
          /\ steps' = << >>
          /\ failKind' = "none"
          /\ ready' = {}
          /\ waited' = 0
     ELSE /\ pc' = "t_outer_except"
          /\ UNCHANGED <<clock, attempts, sentBefore, mails, steps, failKind,
                         ready, waited>>
  /\ UNCHANGED <<driver, nextId, quitLog, alive, cur, result, callDriver,
                 fatalFail, published, loginFailures, sendFailed, sentSecret,
                 logHasCode>>
  /\ ServerUnchanged

\* "return login_successful" (True); post_tweet ignores the value
TB_login_return ==
  /\ pc = "l_return"
  /\ pc' = "t_compose"
  /\ UNCHANGED <<driver, nextId, quitLog, alive, cur, steps, result,
                 callDriver, failKind>>
  /\ NoMail /\ ProcessUnchanged /\ CallUnchanged

\* a tweet step of post_tweet: wait and act; each except clause mails and
\* raises to the outer except of post_tweet
TB_tweet_step(at, name, next, subject) ==
  /\ pc = at
  /\ \E o \in Outcomes :
       /\ Possible(o)
       /\ alive' = (alive /\ o # "Dead")
       /\ IF Failed(o)
          THEN /\ pc' = "t_outer_except"
               /\ steps' = steps
               /\ published' = published
               /\ failKind' = o
               /\ Notify(HandlerMails(o, subject[IF o = "Dead" THEN "Other" ELSE o]))
          ELSE /\ pc' = next
               /\ steps' = Append(steps, name)
               /\ published' = IF name \in FinalClicks THEN published + 1
                                ELSE published
               /\ failKind' = failKind
               /\ NoMail
  /\ UNCHANGED <<driver, nextId, quitLog, cur, result, callDriver>>
  /\ UNCHANGED <<attempts, clock, fatalFail, sentBefore, loginFailures>>
  /\ ProcessUnchanged

TB_tweet_compose == TB_tweet_step("t_compose", "open_composer", "t_text", ComposeMail)
TB_tweet_text    == TB_tweet_step("t_text", "type_tweet", "t_button", TextMail)
TB_tweet_button  == TB_tweet_step("t_button", "tweet_click", "t_success", ButtonMail)

\* time.sleep(10); success_info reads driver.current_url; success mail; return True
TB_tweet_success ==
  /\ pc = "t_success"
  /\ \E o \in {"ok", "Dead"} :
       /\ Possible(o)
       /\ alive' = (alive /\ o # "Dead")
       /\ IF Failed(o)
          THEN pc' = "t_outer_except" /\ failKind' = o /\ result' = result /\ NoMail
          ELSE /\ pc' = "finally"
               /\ Notify(Append(mails, "Twitter Post Success"))
               /\ result' = "True"
               /\ failKind' = failKind
  /\ UNCHANGED <<driver, nextId, quitLog, cur, steps, callDriver>>
  /\ ProcessUnchanged /\ CallUnchanged

\* variant: the except clause of post_tweet hands the failure back to the
\* retry loop of _login
TB_outer_except_result_relogin(urlRaises) ==
  [mails |-> mails, result |-> result, next |-> "l_retry"]

\* variant: a failed tweet step sends the flow back to the composer once
TB_outer_except_result_again(urlRaises) ==
  IF Count(steps, "open_composer") = 1 /\ published = 0
  THEN [mails |-> mails, result |-> result, next |-> "t_compose"]
  ELSE IF urlRaises
       THEN [mails |-> mails, result |-> "raised", next |-> "finally"]
       ELSE [mails |-> Append(mails, "Tweet Post Failed"), result |-> "False",
             next |-> "finally"]

\* outer except of post_tweet: screenshot, current_url = driver.current_url
\* (raises on a dead session, out of post_tweet), "Tweet Post Failed" mail,
\* return False
TB_outer_except_result(urlRaises) ==
  IF urlRaises THEN [mails |-> mails, result |-> "raised", next |-> "finally"]
  ELSE [mails |-> Append(mails, "Tweet Post Failed"), result |-> "False",
        next |-> "finally"]

TB_outer_except ==
  /\ pc = "t_outer_except"
  /\ LET r == TB_outer_except_result(UrlReadRaises)
     IN  Notify(r.mails) /\ result' = r.result /\ pc' = r.next
  /\ UNCHANGED <<driver, nextId, quitLog, alive, cur, steps, callDriver, failKind>>
  /\ ProcessUnchanged /\ CallUnchanged

\* ======================================================= finally: cleanup
\* "finally: self.cleanup()" of post_article and post_tweet, up to the
\* invocation of driver.quit()
post_finally ==
  /\ pc = "finally"
  /\ quitLog' = cleanup_quit(driver, quitLog, cur, "finally")
  /\ pc' = IF driver[cur] # None THEN "cleanup_quit" ELSE "done"
  /\ UNCHANGED <<driver, nextId, alive, cur, steps, result, callDriver, failKind>>
  /\ NoMail /\ ProcessUnchanged /\ CallUnchanged

\* driver.quit() returns or raises; the rest of cleanup runs and the call ends
post_finally_clear ==
  /\ pc = "cleanup_quit"
  /\ \E quitRaised \in BOOLEAN :
       LET f == cleanup_finally(driver, cur, quitRaised)
       IN  /\ driver' = f.driver
           /\ result' = IF f.raises THEN "raised" ELSE result
  /\ pc' = "done"
  /\ UNCHANGED <<quitLog, nextId, alive, cur, steps, callDriver, failKind>>
  /\ NoMail /\ ProcessUnchanged /\ CallUnchanged

\* ================================================================ signals
\* signal_handler: self.cleanup() of the client that installed the handler,
\* then sys.exit(0).  SystemExit is not an Exception, so no except clause of
\* either client catches it; it unwinds through the finally clauses of the
\* interrupted call: inside cleanup (quit in flight) only
\* "self.driver = None" runs, elsewhere in a call the whole cleanup runs again.
\* variant: the process ends in the handler without unwinding the call
exit_unwinds_never(inCall) == FALSE

\* sys.exit(0) raises SystemExit in the interrupted frame: when a call is in
\* progress its finally clauses run before the process ends
exit_unwinds(inCall) == inCall

signal_handler ==
  /\ pc # "exited"
  /\ handlerOwner # "none"
  /\ \E quitRaised \in BOOLEAN :
       LET h == cleanup(driver, quitLog, handlerOwner, "handler", quitRaised)
           u == IF ~exit_unwinds(InCall) THEN h
                ELSE IF pc = "cleanup_quit"
                     THEN [driver |-> cleanup_finally(h.driver, cur, quitRaised).driver,
                           quitLog |-> h.quitLog]
                     ELSE cleanup(h.driver, h.quitLog, cur, "unwind", quitRaised)
       IN  driver' = u.driver /\ quitLog' = u.quitLog
  /\ pc' = "exited"
  /\ result' = IF InCall THEN "exit" ELSE result
  /\ UNCHANGED <<nextId, alive, cur, steps, callDriver, failKind>>
  /\ NoMail /\ ProcessUnchanged /\ CallUnchanged

Next ==
  \/ \E c \in Clients : Construct(c)
  \/ \E c \in Clients : Call(c)
  \/ NP_setup_driver
  \/ NP_login_get
  \/ NP_login_cookies
  \/ NP_login_email
  \/ NP_login_password
  \/ NP_login_click
  \/ NP_login_wait
  \/ NP_login_except
  \/ NP_new_get
  \/ NP_title_wait
  \/ NP_body_wait
  \/ NP_fill_title
  \/ NP_fill_body
  \/ NP_publish_click
  \/ NP_post_click
  \/ NP_read_url
  \/ NP_outer_except
  \/ TB_setup_driver
  \/ TB_login_get
  \/ TB_login_cookies
  \/ TB_login_user
  \/ TB_login_userid
  \/ TB_login_password
  \/ TB_login_codewait
  \/ TB_login_getcode
  \/ TB_login_codeenter
  \/ TB_login_stdwait
  \/ TB_login_completion_except
  \/ TB_login_outer_except
  \/ TB_login_retry
  \/ TB_login_return
  \/ TB_tweet_compose
  \/ TB_tweet_text
  \/ TB_tweet_button
  \/ TB_tweet_success
  \/ TB_outer_except
  \/ post_finally
  \/ post_finally_clear
  \/ signal_handler

Spec == Init /\ [][Next]_vars

TypeOK ==
  /\ constructed \subseteq Clients
  /\ handlerOwner \in Clients \cup {"none"}
  /\ nextId \in 0..MaxCalls
  /\ calls \in 0..MaxCalls
  /\ result \in {"pending", "url", "None", "True", "False", "raised", "exit"}
  /\ failKind \in {"none", "Timeout", "Other", "Dead"}
  /\ sendFailed \in {"no", "swallowed", "raised"}
  /\ logHasCode \in BOOLEAN
  /\ sentSecret \in BOOLEAN
  /\ ready \subseteq Landmarks
  /\ waited \in {0, ModalWait, DefaultWait}
  /\ body \in {"none", "generic", "url", "exception"}

\* ================================================= cleanup called directly
MaxSetups == 3         \* drivers created in the cleanup-only specification

\* a client's _setup_driver has stored a new driver in self.driver
CL_setup_driver(c) ==
  /\ pc = "idle"
  /\ c \in constructed
  /\ driver[c] = None
  /\ nextId < MaxSetups
  /\ nextId' = new_driver(nextId)
  /\ driver' = [driver EXCEPT ![c] = new_driver(nextId)]
  /\ cur' = c
  /\ result' = "pending"
  /\ UNCHANGED <<constructed, handlerOwner, quitLog, alive, pc, attempts, clock,
                 mails, sentBefore, steps, published, calls, callDriver,
                 loginFailures, credsValid, fatalFail, failKind, sendFailed,
                 logHasCode, sentSecret, seen, request, response, body, ready,
                 waited, fetch>>

\* c.cleanup() called by anybody, in any state, run to its end; result records
\* how the call ended: "raised", "swallowed" (quit raised, cleanup returned),
\* "returned"
CL_cleanup(c) ==
  /\ pc = "idle"
  /\ c \in constructed
  /\ \E quitRaised \in BOOLEAN :
       LET r == cleanup(driver, quitLog, c, "call", quitRaised)
       IN  /\ driver' = r.driver
           /\ quitLog' = r.quitLog
           /\ result' = IF r.raises THEN "raised"
                        ELSE IF quitRaised /\ driver[c] # None THEN "swallowed"
                        ELSE "returned"
  /\ cur' = c
  /\ UNCHANGED <<constructed, handlerOwner, nextId, alive, pc, attempts, clock,
                 mails, sentBefore, steps, published, calls, callDriver,
                 loginFailures, credsValid, fatalFail, failKind, sendFailed,
                 logHasCode, sentSecret, seen, request, response, body, ready,
                 waited, fetch>>

NextCleanup ==
  \/ \E c \in Clients : Construct(c)
  \/ \E c \in Clients : CL_setup_driver(c)
  \/ \E c \in Clients : CL_cleanup(c)

SpecCleanup == Init /\ [][NextCleanup]_vars

\* ================================================= two calls, one caller
\* the call that has just ended: the steps it completed and the exception
\* that ended it, with what its caller has in hand (return value, mails)
CallSummary ==
  [steps |-> steps, kind |-> failKind, result |-> result, mails |-> mails]

\* a caller that keeps what it saw of one call and calls post_article again
CallRemember(c) ==
  /\ pc \in {"idle", "done"}
  /\ c \in constructed
  /\ calls < MaxCalls
  /\ BeginCall(c)
  /\ seen' = IF pc = "done" THEN CallSummary ELSE NoCall
  /\ UNCHANGED <<constructed, handlerOwner, request, response>>

NextTwoCalls ==
  \/ Construct("note")
  \/ CallRemember("note")
  \/ NP_setup_driver
  \/ NP_login_get
  \/ NP_login_cookies
  \/ NP_login_email
  \/ NP_login_password
  \/ NP_login_click
  \/ NP_login_wait
  \/ NP_login_except
  \/ NP_new_get
  \/ NP_title_wait
  \/ NP_body_wait
  \/ NP_fill_title
  \/ NP_fill_body
  \/ NP_publish_click
  \/ NP_post_click
  \/ NP_read_url
  \/ NP_outer_except
  \/ post_finally
  \/ post_finally_clear

SpecTwoCalls == Init /\ [][NextTwoCalls]_vars

\* ======================================================= POST /post_note
\* lengths of the title and the content of a request
TitleLens == {0, 1}
ContentLens == {0, 1, MaxContentLen, MaxContentLen + 1}

EndpointUnchanged ==
  UNCHANGED <<driver, nextId, quitLog, alive, cur, attempts, clock, mails,
              sentBefore, steps, published, result, calls, callDriver,
              loginFailures, credsValid, fatalFail, failKind, sendFailed,
              logHasCode, sentSecret, seen, ready, waited, fetch>>

\* data = request.get_json()
EP_request ==
  /\ pc \in {"idle", "responded"}
  /\ request.n < MaxRequests
  /\ \E f \in BOOLEAN, t \in TitleLens, c \in ContentLens :
       /\ ~f => (t = 0 /\ c = 0)
       /\ request' = [n |-> request.n + 1, fields |-> f, title |-> t,
                      content |-> c, drivers |-> nextId]
  /\ response' = 0
  /\ body' = "none"
  /\ pc' = "e_fields"
  /\ UNCHANGED <<constructed, handlerOwner>>
  /\ EndpointUnchanged

\* "if not data or 'title' not in data or 'content' not in data": 400
EP_fields ==
  /\ pc = "e_fields"
  /\ IF request.fields
     THEN pc' = "e_construct" /\ response' = response /\ body' = body
     ELSE pc' = "responded" /\ response' = 400 /\ body' = "generic"
  /\ UNCHANGED <<constructed, handlerOwner, request>>
  /\ EndpointUnchanged

\* "poster = NotePoster()": __init__ raises ValueError when a setting is
\* missing ("except Exception": 500 with the exception's type, message and
\* traceback), else installs the signal handler
EP_construct ==
  /\ pc = "e_construct"
  /\ \E configured \in BOOLEAN :
       IF configured
       THEN /\ constructed' = constructed \cup {"note"}
            /\ handlerOwner' = "note"
            /\ pc' = "e_length"
            /\ response' = response
            /\ body' = body
       ELSE /\ pc' = "responded"
            /\ response' = 500
            /\ body' = "exception"
            /\ UNCHANGED <<constructed, handlerOwner>>
  /\ UNCHANGED request
  /\ EndpointUnchanged

\* "if len(data['content']) > 100000": 400
EP_length ==
  /\ pc = "e_length"
  /\ IF request.content > MaxContentLen
     THEN pc' = "responded" /\ response' = 400 /\ body' = "generic"
     ELSE pc' = "e_call" /\ response' = response /\ body' = body
  /\ UNCHANGED <<constructed, handlerOwner, request>>
  /\ EndpointUnchanged

\* note_url = poster.post_article(data['content'], data['title'])
EP_post_article ==
  /\ pc = "e_call"
  /\ BeginCall("note")
  /\ UNCHANGED <<constructed, handlerOwner, seen, request, response>>

\* "if not note_url": 500 with fixed texts; a URL: 200; an exception of
\* post_article: "except Exception as e" answers 500 with
\* details = {error_type, error_message, traceback}
EP_respond ==
  /\ pc = "done"
  /\ response' = IF result = "url" THEN 200 ELSE 500
  /\ body' = CASE result = "url" -> "url"
                [] result = "raised" -> "exception"
                [] OTHER -> "generic"
  /\ pc' = "responded"
  /\ UNCHANGED <<constructed, handlerOwner, request>>
  /\ EndpointUnchanged

NextEndpoint ==
  \/ EP_request
  \/ EP_fields
  \/ EP_construct
  \/ EP_length
  \/ EP_post_article
  \/ EP_respond
  \/ NP_setup_driver
  \/ NP_login_get
  \/ NP_login_cookies
  \/ NP_login_email
  \/ NP_login_password
  \/ NP_login_click
  \/ NP_login_wait
  \/ NP_login_except
  \/ NP_new_get
  \/ NP_title_wait
  \/ NP_body_wait
  \/ NP_fill_title
  \/ NP_fill_body
  \/ NP_publish_click
  \/ NP_post_click
  \/ NP_read_url
  \/ NP_outer_except
  \/ post_finally
  \/ post_finally_clear

SpecEndpoint == Init /\ [][NextEndpoint]_vars

\* ---------------------------------------------------------------------------
\* NewsFetcher.fetch_news: a feed is a parse error (feed.bozo), a parse that
\* raises, or a list of entries; an entry is processed ("ok") or raises ("err")
\* ---------------------------------------------------------------------------
RECURSIVE SeqsUpTo(_, _)
SeqsUpTo(S, n) ==
  IF n = 0 THEN {<< >>}
  ELSE LET shorter == SeqsUpTo(S, n - 1)
       IN  shorter \cup {Append(q, x) : q \in shorter, x \in S}

EntryLists == SeqsUpTo({"ok", "err"}, MaxEntries)
Feeds == {[kind |-> "bozo", entries |-> << >>], [kind |-> "raises", entries |-> << >>]}
           \cup {[kind |-> "parsed", entries |-> e] : e \in EntryLists}
FeedLists == SeqsUpTo(Feeds, MaxFeeds)

FetchUnchanged ==
  UNCHANGED <<constructed, handlerOwner, driver, nextId, quitLog, alive, cur,
              pc, attempts, clock, mails, sentBefore, steps, published, result,
              calls, callDriver, loginFailures, credsValid, fatalFail, failKind,
              sendFailed, logHasCode, sentSecret, seen, request, response, body,
              ready, waited>>

\* "max_articles is not None and len(articles) >= max_articles"
limit_reached(f, n) == f.limited /\ n >= f.max

\* fetch_news(max_articles): "articles = []", then the loop over self.rss_feeds
FN_call ==
  /\ fetch.pc \in {"idle", "returned"}
  /\ \E fl \in FeedLists, limited \in BOOLEAN, n \in 0..MaxLimit :
       /\ limited \/ n = 0
       /\ fetch' = [pc |-> "feed", feeds |-> fl, limited |-> limited, max |-> n,
                    fi |-> 0, ei |-> 0, articles |-> 0, got |-> << >>]
  /\ FetchUnchanged

\* variant: a feed that cannot be read ends the call
feed_next_aborts(kind) == IF kind = "parsed" THEN "entry" ELSE "returned"

\* "if feed.bozo: continue" and "except Exception as e: ... continue" go to
\* the next feed; a parsed feed enters the loop over its entries
feed_next(kind) == IF kind = "parsed" THEN "entry" ELSE "feed"

\* "for url in self.rss_feeds": feedparser.parse; "if feed.bozo: continue";
\* "except Exception: continue"; else the loop over feed.entries starts
FN_feed ==
  /\ fetch.pc = "feed"
  /\ fetch.fi < Len(fetch.feeds)
  /\ LET feed == fetch.feeds[fetch.fi + 1]
     IN  fetch' = [fetch EXCEPT !.fi = @ + 1, !.ei = 0,
                                !.pc = feed_next(feed.kind)]
  /\ FetchUnchanged

\* "for entry in feed.entries": the article is appended, and only then is the
\* limit tested ("break"); an entry that raises is skipped ("continue"); after
\* the last entry the test below the entry loop follows
FN_entry ==
  /\ fetch.pc = "entry"
  /\ LET entries == fetch.feeds[fetch.fi].entries
     IN  IF fetch.ei = Len(entries)
         THEN fetch' = [fetch EXCEPT !.pc = "check"]
         ELSE IF entries[fetch.ei + 1] = "ok"
              THEN fetch' = [fetch EXCEPT
                               !.ei = @ + 1,
                               !.articles = @ + 1,
                               !.got = Append(@, <<fetch.fi, fetch.ei + 1>>),
                               !.pc = IF limit_reached(fetch, fetch.articles + 1)
                                      THEN "check" ELSE "entry"]
              ELSE fetch' = [fetch EXCEPT !.ei = @ + 1]
  /\ FetchUnchanged

\* the test after the entry loop: "break" out of the feed loop, or next feed
FN_check ==
  /\ fetch.pc = "check"
  /\ fetch' = [fetch EXCEPT !.pc = IF limit_reached(fetch, fetch.articles)
                                    THEN "returned" ELSE "feed"]
  /\ FetchUnchanged

\* the feed loop is exhausted: "return articles"
FN_return ==
  /\ fetch.pc = "feed"
  /\ fetch.fi = Len(fetch.feeds)
  /\ fetch' = [fetch EXCEPT !.pc = "returned"]
  /\ FetchUnchanged

NextFetch ==
  \/ FN_call
  \/ FN_feed
  \/ FN_entry
  \/ FN_check
  \/ FN_return

SpecFetch == Init /\ [][NextFetch]_vars

\* ---------------------------------------------------------------------------
\* progress of a call: post_article and post_tweet are sequential code, so a
\* call that can take its next step takes it (every wait, navigation and send
\* returns or raises); a signal may arrive but need not
\* ---------------------------------------------------------------------------
CallStep ==
  \/ NP_setup_driver \/ NP_login_get \/ NP_login_cookies \/ NP_login_email
  \/ NP_login_password \/ NP_login_click \/ NP_login_wait \/ NP_login_except
  \/ NP_new_get \/ NP_title_wait \/ NP_body_wait \/ NP_fill_title
  \/ NP_fill_body \/ NP_publish_click \/ NP_post_click \/ NP_read_url
  \/ NP_outer_except
  \/ TB_setup_driver \/ TB_login_get \/ TB_login_cookies \/ TB_login_user
  \/ TB_login_userid \/ TB_login_password \/ TB_login_codewait
  \/ TB_login_getcode \/ TB_login_codeenter \/ TB_login_stdwait
  \/ TB_login_completion_except \/ TB_login_outer_except \/ TB_login_retry
  \/ TB_login_return \/ TB_tweet_compose \/ TB_tweet_text \/ TB_tweet_button
  \/ TB_tweet_success \/ TB_outer_except
  \/ post_finally \/ post_finally_clear

SpecLive == Init /\ [][Next]_vars /\ WF_vars(CallStep)

\* the articles of the feeds fl[i..], in the order of the feeds and of their
\* entries: one for each entry of a parsed feed that is processed without an
\* exception, named by the positions of its feed and entry
RECURSIVE Collected(_, _)
Collected(fl, i) ==
  IF i > Len(fl) THEN << >>
  ELSE LET e == fl[i].entries
           Ok(p) == e[p[2]] = "ok"
           ofFeed == IF fl[i].kind = "parsed"
                     THEN SelectSeq([j \in 1..Len(e) |-> <<i, j>>], Ok)
                     ELSE << >>
       IN  ofFeed \o Collected(fl, i + 1)

IsPrefix(a, b) ==
  Len(a) <= Len(b) /\ \A i \in 1..Len(a) : a[i] = b[i]

\* the entries of the parsed feeds that are processed without an exception
RECURSIVE Processed(_)
Processed(fl) ==
  IF fl = << >> THEN 0
  ELSE Processed(Tail(fl))
         + (IF Head(fl).kind = "parsed" THEN Count(Head(fl).entries, "ok") ELSE 0)

\* ================================================================== claims
Range(seq) == {seq[i] : i \in 1..Len(seq)}

\* the call has ended by return or by a propagating exception
Ended == pc = "done"

PublishSteps == {"new_page", "title_found", "body_found", "fill_title",
                 "fill_body", "publish_click", "post_click", "read_url",
                 "open_composer", "type_tweet", "tweet_click"}
TweetSteps == {"open_composer", "type_tweet", "tweet_click"}

\* C1: whenever a post_article or post_tweet call has ended (by return, by an
\* exception, or by the process exiting on a signal), self.driver of that
\* client is None and quit was invoked on the driver the call created.
C1_SessionReleased ==
  (pc \in {"done", "exited"} /\ cur # "none") =>
     /\ driver[cur] = None
     /\ (callDriver # None => QuitCalls(callDriver) >= 1)

\* a call that created a driver failed and ended with the driver quit once
C1_Witness ==
  /\ pc = "done"
  /\ callDriver # None
  /\ result \in {"None", "False"}
  /\ QuitCalls(callDriver) = 1
  /\ driver[cur] = None

\* C2: every post_article call that ends gives its caller a URL or None; no
\* exception propagates.
C2_NotePosterNeverRaises ==
  (Ended /\ cur = "note") => result \in {"url", "None"}

\* C3: every post_tweet call that ends gives its caller True or False; no
\* exception propagates.
C3_TwitterBotNeverRaises ==
  (Ended /\ cur = "twitter") => result \in {"True", "False"}

\* C4: when the process has exited on a signal delivered while the call held
\* a driver, quit was invoked on that driver exactly once.
C4_SignalQuitsExactlyOnce ==
  (pc = "exited" /\ result = "exit" /\ callDriver # None) =>
     QuitCalls(callDriver) = 1

\* C5: a cleanup call returns normally with self.driver None, quit is invoked
\* at most once on every driver, and a cleanup call that directly follows a
\* cleanup call of the same client changes nothing.
C5_CleanupIdempotent ==
  /\ [](result # "raised")
  /\ [](result \in {"returned", "swallowed"} => driver[cur] = None)
  /\ [](\A d \in 1..nextId : QuitCalls(d) <= 1)
  /\ [][(result \in {"returned", "swallowed"}
           /\ result' \in {"returned", "swallowed"} /\ cur' = cur)
          => (driver' = driver /\ quitLog' = quitLog)]_vars

\* cleanup returned normally on a live driver whose quit raised
C5_Witness ==
  /\ result = "swallowed"
  /\ driver[cur] = None
  /\ \E d \in 1..nextId : QuitCalls(d) = 1

\* C6: within one call the final publish click happens at most once and no
\* publish step is executed twice; only login attempts repeat.
C6_PublishAtMostOnce ==
  /\ published <= 1
  /\ \A n \in PublishSteps : Count(steps, n) <= 1

\* login ran more than once and the tweet button was clicked once
C6_Witness ==
  /\ cur = "twitter"
  /\ attempts >= 2
  /\ published = 1
  /\ Count(steps, "tweet_click") = 1

\* C7: _login runs at most 3 times in a post_tweet call, and when the third
\* attempt has failed too the call returns False with no tweet step executed.
C7_BoundedLoginThenFalse ==
  /\ attempts <= MaxAttempts
  /\ (Ended /\ cur = "twitter" /\ loginFailures = MaxAttempts) =>
        /\ result = "False"
        /\ Range(steps) \cap TweetSteps = {}

\* C8: a login that failed twice and then succeeded used exactly 3 attempts,
\* slept at least the two backoff delays (each at least the 4 s floor), and
\* the tweet steps are what follows.
C8_ThirdAttemptSucceeds ==
  /\ []((cur = "twitter" /\ loginFailures = 2 /\ pc \in {"l_return", "t_compose"}) =>
          /\ attempts = 3
          /\ clock >= 2 * WaitMin
          /\ "login_confirmed" \in Range(steps))
  /\ [][(pc = "l_return" /\ pc' # "exited") => pc' = "t_compose"]_vars

\* the composer is reached after two failed attempts and a third that succeeded
C8_Witness ==
  /\ cur = "twitter"
  /\ pc = "t_text"
  /\ loginFailures = 2
  /\ attempts = 3
  /\ "open_composer" \in Range(steps)

\* C9: once a login attempt has failed on the site's invalid-credentials
\* answer, no further login attempt is started in that call.
C9_FatalLoginFailsFast ==
  ~(cur = "twitter" /\ fatalFail /\ pc = "l_get")

\* C10: a post_article call that ends returns a URL only if login was
\* confirmed and title, body, publish click and post click were all done;
\* otherwise it returns None.
AllPublished ==
  {"login_confirmed", "fill_title", "fill_body", "publish_click", "post_click"}
     \subseteq Range(steps)

C10_NoPartialSuccess ==
  (Ended /\ cur = "note") =>
     /\ (result = "url" => AllPublished)
     /\ (~AllPublished => result = "None")

\* C11: in post_article, once the login attempt has failed no publish step is
\* executed, and the call that ends after a failed login returns None.
C11_NoPublishAfterFailedLogin ==
  /\ (cur = "note" /\ loginFailures >= 1) => Range(steps) \cap PublishSteps = {}
  /\ (Ended /\ cur = "note" /\ loginFailures >= 1) => result = "None"

\* C12: a call in which login succeeded at the first attempt and every
\* publish step succeeded has handed no mail to the notification transport.
C12_NoMailOnSuccess ==
  (Ended /\ result \in {"url", "True"} /\ loginFailures = 0) =>
     sentBefore + Len(mails) = 0

\* C13: a post_article call whose login attempt ended in a timeout on a
\* session that still answers does not end before the login has been
\* attempted three times: two transient failures are followed by a third try.
C13_NoteLoginRetried ==
  (Ended /\ cur = "note" /\ loginFailures >= 1 /\ failKind = "Timeout" /\ alive) =>
     loginFailures >= MaxAttempts

\* C14: a call that ended on the failure of a publish step, after a login
\* that succeeded at once, returned the failure value and sent exactly one
\* failure notification.
SuccessPathMails ==
  {"Screenshots After Login Attempt", "post_article_success", "Twitter Post Success"}
FailureMails(ms) ==
  Cardinality({i \in 1..Len(ms) : ms[i] \notin SuccessPathMails})
PublishStepFailed ==
  /\ Ended
  /\ loginFailures = 0
  /\ "login_confirmed" \in Range(steps)
  /\ failKind # "none"

C14_PublishFailureReportedOnce ==
  PublishStepFailed =>
     /\ result \in {"None", "False"}
     /\ FailureMails(mails) = 1

\* C15: no notification send ever raises into the automation, and a call in
\* which a send failed ends with the result that its browser steps alone
\* determine: success iff every step completed, and on a session that still
\* answers the failure value otherwise.
CallCompleted ==
  /\ failKind = "none"
  /\ \/ "read_url" \in Range(steps)
     \/ (cur = "twitter" /\ published = 1)

LiveDrivers == {d \in 1..nextId : QuitCalls(d) = 0}
Working == InCall /\ pc \notin {"finally", "cleanup_quit"}

C17_SessionNeverReused ==
  /\ Cardinality(LiveDrivers) <= 1
  /\ \A c \in Clients : driver[c] # None => (c = cur /\ driver[c] = callDriver)
  /\ pc \in {"idle", "done", "exited"} => \A c \in Clients : driver[c] = None
  /\ (Working /\ callDriver # None) =>
        /\ driver[cur] = callDriver
        /\ QuitCalls(callDriver) = 0
        /\ \A d \in 1..nextId : d # callDriver => QuitCalls(d) >= 1

\* the same client object is in its second call, on a second driver, the
\* first one having been quit
C17_Witness ==
  /\ constructed = {"note"}
  /\ calls = 2
  /\ pc = "n_title_wait"
  /\ callDriver = 2
  /\ QuitCalls(1) = 1
  /\ QuitCalls(2) = 0

\* C18: two post_article calls that timed out at two different publish steps
\* (title field, body field, publish button, post button) differ in what the
\* caller has in hand: return value and notifications.
NoteOrder ==
  <<"login_page", "clear_cookies", "type_email", "type_password", "click_login",
    "login_confirmed", "new_page", "title_found", "body_found", "fill_title",
    "fill_body", "publish_click", "post_click", "read_url">>
FailedStep(st) ==
  IF Len(st) < Len(NoteOrder) THEN NoteOrder[Len(st) + 1] ELSE "none"
TypedSteps == {"title_found", "body_found", "publish_click", "post_click"}

C18_FailureTypedByStep ==
  (/\ Ended /\ cur = "note"
   /\ seen.kind = "Timeout" /\ failKind = "Timeout"
   /\ FailedStep(seen.steps) \in TypedSteps
   /\ FailedStep(steps) \in TypedSteps
   /\ FailedStep(seen.steps) # FailedStep(steps))
  => <<seen.result, seen.mails>> # <<result, mails>>

\* C19: a post_article call that ended on a timeout of the login identifier
\* field is told apart, by return value and notifications, from a call that
\* failed at any other step.
C19_IdentifierFieldFailureKind ==
  (/\ Ended /\ cur = "note"
   /\ seen.kind = "Timeout" /\ FailedStep(seen.steps) = "type_email"
   /\ failKind # "none" /\ callDriver # None
   /\ FailedStep(steps) # "type_email")
  => <<seen.result, seen.mails>> # <<result, mails>>

\* C20: post_article is entered by post_note only with a non-empty title and
\* a non-empty content of at most 100000 characters, and a request answered
\* 400 has created no driver.
InPostArticle ==
  pc \notin {"idle", "e_fields", "e_construct", "e_length", "e_call", "responded"}

C20_ValidatedBeforeCore ==
  /\ (request.n > 0 /\ InPostArticle) =>
        /\ request.title > 0
        /\ request.content > 0
        /\ request.content <= MaxContentLen
  /\ (request.n > 0 /\ response = 400) => nextId = request.drivers

\* C21: no HTTP response of post_note carries the type, the message or the
\* traceback of an exception: a failure is answered with fixed texts only.
C21_GenericErrorOnly ==
  pc = "responded" => body # "exception"

\* C22: fetch_news returns at most max_articles articles when a limit is
\* given, zero included, and one article for every processed entry of every
\* feed when no limit is given.
C22_AtMostMaxArticles ==
  fetch.pc = "returned" =>
    /\ fetch.limited => fetch.articles <= fetch.max
    /\ ~fetch.limited => fetch.articles = Processed(fetch.feeds)

\* C23: in the login-completion wait of TwitterBot._login the confirmation-code
\* prompt has priority: whenever the prompt is ready during the wait, alone or
\* together with a logged-in landmark, the code path is taken.
C23_CodePromptHasPriority ==
  [][(pc = "l_codewait" /\ "code_prompt" \in ready') => pc' = "l_getcode"]_vars

C23_Witness ==
  pc = "l_getcode" /\ ready = Landmarks

\* C24: every post_article and post_tweet call that has started eventually
\* ends, by returning, raising or the process exiting, with self.driver of the
\* called client released.
C24_CallTerminatesReleased ==
  InCall ~> (pc \in {"done", "exited"} /\ cur \in Clients /\ driver[cur] = None)

C24_Witness ==
  /\ pc = "done" /\ cur = "twitter"
  /\ attempts = MaxAttempts /\ loginFailures = MaxAttempts
  /\ callDriver # None /\ driver[cur] = None

\* C25: the steps of a post_article call happen in the order of the code, each
\* at most once (new page, title, body, publish button, post button, URL
\* read), and a call that returned the URL has done every one of them.
C25_PublishStepsInOrder ==
  cur = "note" =>
    /\ Len(steps) <= Len(NoteOrder)
    /\ \A i \in 1..Len(steps) : i <= Len(NoteOrder) => steps[i] = NoteOrder[i]
    /\ result = "url" => steps = NoteOrder

C25_Witness ==
  cur = "note" /\ pc = "done" /\ result = "url" /\ steps = NoteOrder

\* C26: in every login attempt of either client, retried attempts included,
\* each credential (e-mail, identifier, user id, password, confirmation code)
\* is typed only after the login page was opened and, after that, the cookies
\* were cleared.
CredentialSteps ==
  {"type_email", "type_id", "type_user_id", "type_password", "type_code"}

C26_CookiesClearedBeforeTyping ==
  \A i \in 1..Len(steps) :
    steps[i] \in CredentialSteps =>
      \E j, k \in 1..Len(steps) :
        j < k /\ k < i /\ steps[j] = "login_page" /\ steps[k] = "clear_cookies"

C26_Witness ==
  /\ cur = "twitter" /\ attempts = 2
  /\ "type_password" \in Range(steps) /\ pc = "l_codewait"

\* C27: when the wait for the user-id prompt of TwitterBot._login times out,
\* the attempt goes on to the password with no notification and no attempt
\* consumed, and the wait that timed out is the short one (5 s), not the
\* default one (180 s).
C27_UserIdStepOptional ==
  [][(pc = "l_userid" /\ waited' # waited) =>
       /\ pc' = "l_password"
       /\ mails' = mails
       /\ attempts' = attempts
       /\ waited' <= ModalWait]_vars

\* C28: when the code prompt appeared and the mailbox gave no code, the
\* mailbox was looked up once, nothing is typed into the code field and the
\* attempt fails: it leaves through the except clauses and is never confirmed.
CodeUnavailable ==
  "mailbox_lookup" \in Range(steps) /\ "code_found" \notin Range(steps)

C28_NoCodeFailsAttempt ==
  CodeUnavailable =>
    /\ Count(steps, "mailbox_lookup") = 1
    /\ "type_code" \notin Range(steps)
    /\ "login_confirmed" \notin Range(steps)
    /\ failKind = "Other"
    /\ pc \in {"l_completion_except", "l_outer_except", "l_retry",
               "t_outer_except", "finally", "cleanup_quit", "done", "exited"}
    /\ result # "True"

C28_Witness ==
  /\ CodeUnavailable
  /\ pc = "l_outer_except"
  /\ "Login Completion Error" \in Range(mails)

\* C29: a login attempt of TwitterBot that failed after the password was
\* submitted has waited for the logged-in landmarks and seen that wait time
\* out.
C29_FailedOnlyAfterLandmarkWait ==
  (cur = "twitter" /\ pc = "l_retry" /\ "type_password" \in Range(steps)) =>
    "Login Completion Timeout (No Confirmation)" \in Range(mails)

\* C30: a login attempt of TwitterBot in which the "Confirmation Timeout"
\* notification was sent never ends as a successful login.
C30_ConfirmationTimeoutFails ==
  "Confirmation Timeout" \in Range(mails) =>
    /\ pc # "l_return"
    /\ "login_confirmed" \notin Range(steps)

\* C31: the except clause of NotePoster._login returns (False) to
\* post_article, which goes on after "self._login()", having sent the
\* notifications of the clause; it never raises into post_article's except
\* clauses.
C31_NoteLoginReturnsFalse ==
  [][(pc = "n_login_except" /\ pc' # "exited") =>
       /\ pc' = "n_new_get"
       /\ "login_timeout" \in Range(mails')]_vars

\* C32: TwitterBot._login returns only after a logged-in landmark was seen in
\* that attempt, so post_tweet is at a tweet step, or has done one, only with
\* a confirmed login.
AtTweetStep == pc \in {"t_compose", "t_text", "t_button", "t_success"}

C32_LoginReturnsOnlyConfirmed ==
  (cur = "twitter" /\ (pc = "l_return" \/ AtTweetStep
                        \/ Range(steps) \cap TweetSteps # {})) =>
    "login_confirmed" \in Range(steps)

C32_Witness ==
  /\ cur = "twitter" /\ pc = "t_compose"
  /\ "code_found" \in Range(steps) /\ "login_confirmed" \in Range(steps)

\* C33: a login attempt of TwitterBot._login that has failed (it has raised
\* to the retry decorator) has sent exactly one failure notification, so the
\* failure notifications of a call number as many as its failed attempts.
C33_OneMailPerFailedAttempt ==
  (cur = "twitter" /\ pc = "l_retry") => FailureMails(mails) = 1

\* C34: a post_tweet call creates a driver only before its first login
\* attempt; from then until the call ends no driver is created and self.driver
\* stays the driver that was created: every login attempt, retried ones
\* included, runs in that one session.
C34_OneSessionPerCall ==
  [][(cur = "twitter" /\ InCall /\ (pc # "t_setup" \/ attempts > 0)) =>
       /\ nextId' = nextId
       /\ callDriver' = callDriver
       /\ (pc' \notin {"done", "exited"} => driver'[cur] = callDriver)]_vars

C34_Witness ==
  /\ cur = "twitter" /\ attempts = MaxAttempts /\ pc = "l_cookies"
  /\ callDriver # None /\ driver[cur] = callDriver

\* C35: the delay slept before a retried login attempt is at least 4 and at
\* most 10 seconds, is never smaller than the delay before it, and is strictly
\* larger than it unless that one had reached the cap.
C35_BackoffGrows ==
  [][(pc = "l_retry" /\ attempts' = attempts + 1) =>
       LET delay == clock' - clock
       IN  /\ delay >= WaitMin
           /\ delay <= WaitMax
           /\ attempts = 2 => /\ delay >= clock
                              /\ clock < WaitMax => delay > clock]_vars

\* the mail of the success path that is sent with screenshots attached:
\* "Screenshots After Login Attempt" carries the screenshots saved at the
\* login page, around the password entry and around the login click; the
\* success mails of both clients are sent with an empty screenshot list
SuccessPathScreenshotMails == {"Screenshots After Login Attempt"}

\* C36: a call in which every step succeeded (first login attempt confirmed,
\* no failure notification, success value returned) has saved no screenshot
\* and has attached none to a mail.
C36_NoScreenshotOnSuccess ==
  (Ended /\ result \in {"url", "True"} /\ loginFailures = 0
         /\ FailureMails(mails) = 0) =>
    Range(mails) \cap SuccessPathScreenshotMails = {}

\* C37: whenever a mail was sent with the log file attached, the payload of
\* the attachment is the content of the log file.
C37_LogAttachmentHasContent ==
  (\E i \in 1..Len(mails) : LogAttached(mails[i])) =>
    log_attachment_payload(LogContent) = LogContent

\* C38: when a signal ends the process during a call of a client that holds a
\* driver while the signal handler installed last belongs to the other client
\* (constructed later), the driver of the calling client has been quit and
\* released before the process exits.
OtherClientsHandler ==
  /\ pc = "exited" /\ result = "exit"
  /\ handlerOwner # cur /\ callDriver # None

C38_ReleaseSurvivesOtherClient ==
  OtherClientsHandler =>
    /\ driver[cur] = None
    /\ QuitCalls(callDriver) >= 1
    /\ \A c \in Clients : driver[c] = None

C38_Witness ==
  /\ OtherClientsHandler
  /\ QuitCallsBy(callDriver, "unwind") = 1
  /\ QuitCallsBy(callDriver, "handler") = 0

\* C39: fetch_news always returns, and what it returns is, in the order of the
\* feeds and of their entries, the articles of the entries processed without
\* error in the feeds that parsed: a feed that is bozo or raises and an entry
\* that raises are left out and nothing else is, except what follows the
\* article at which a given limit was reached.
C39_FailuresIsolated ==
  fetch.pc = "returned" =>
    /\ Len(fetch.got) = fetch.articles
    /\ IsPrefix(fetch.got, Collected(fetch.feeds, 1))
    /\ \/ fetch.got = Collected(fetch.feeds, 1)
       \/ fetch.limited /\ fetch.articles >= fetch.max

C39_Witness ==
  /\ fetch.pc = "returned" /\ ~fetch.limited
  /\ Len(fetch.feeds) = 2
  /\ fetch.feeds[1].kind = "raises"
  /\ fetch.feeds[2].kind = "parsed"
  /\ fetch.feeds[2].entries = <<"err", "ok">>
  /\ fetch.got = << <<2, 2>> >>
====
